---- MODULE Spec2Model ----
(***************************************************************************)
(* Model of the prepare-commit-msg hook of ai-code-review (the most recent *)
(* revision of bin/hook.mjs, kept as src/unnamed/part_002).  One run of    *)
(* the script is one behaviour: the module-level statements and the body   *)
(* of runAIReview are the actions, callWithRetry is the retry loop         *)
(* CallAttempt / BackoffDone, and the string functions (patternToRegex,    *)
(* shouldIgnoreFile, filterDiff, parseInt, ...) are operators over TLA+    *)
(* strings, which TLC treats as sequences of characters.                   *)
(***************************************************************************)
EXTENDS Integers, Sequences, FiniteSets, TLC

(***************************************************************************)
(* JavaScript string primitives                                            *)
(***************************************************************************)
Ch(s, i) == SubSeq(s, i, i)

Min(a, b) == IF a < b THEN a ELSE b

Max(a, b) == IF a > b THEN a ELSE b

\* String.prototype.startsWith
StartsWith(s, p) == Len(s) >= Len(p) /\ SubSeq(s, 1, Len(p)) = p

\* String.prototype.endsWith
EndsWith(s, p) == Len(s) >= Len(p) /\ SubSeq(s, Len(s) - Len(p) + 1, Len(s)) = p

\* String.prototype.slice(from, to) with 0-based, possibly negative, indexes
SliceIdx(s, k) == IF k < 0 THEN Max(Len(s) + k, 0) ELSE Min(k, Len(s))

Slice(s, from, to) == SubSeq(s, SliceIdx(s, from) + 1, SliceIdx(s, to))

SliceFrom(s, from) == SubSeq(s, SliceIdx(s, from) + 1, Len(s))

\* position (1-based) of the first occurrence of p in s at or after i, 0 if none
RECURSIVE IndexOf(_, _, _)
IndexOf(s, p, i) ==
  IF i + Len(p) - 1 > Len(s) THEN 0
  ELSE IF SubSeq(s, i, i + Len(p) - 1) = p THEN i
  ELSE IndexOf(s, p, i + 1)

\* String.prototype.split(sep) for a non-empty separator
RECURSIVE Split(_, _)
Split(s, sep) ==
  LET k == IndexOf(s, sep, 1) IN
  IF k = 0 THEN <<s>>
  ELSE <<SubSeq(s, 1, k - 1)>> \o Split(SubSeq(s, k + Len(sep), Len(s)), sep)

\* Array.prototype.join(sep)
RECURSIVE Join(_, _)
Join(parts, sep) ==
  IF Len(parts) = 0 THEN ""
  ELSE IF Len(parts) = 1 THEN parts[1]
  ELSE parts[1] \o sep \o Join(Tail(parts), sep)

WhiteSpace == {" ", "\n", "\t", "\r"}

RECURSIVE TrimStart(_)
TrimStart(s) ==
  IF Len(s) > 0 /\ Ch(s, 1) \in WhiteSpace THEN TrimStart(SubSeq(s, 2, Len(s))) ELSE s

RECURSIVE TrimEnd(_)
TrimEnd(s) ==
  IF Len(s) > 0 /\ Ch(s, Len(s)) \in WhiteSpace THEN TrimEnd(SubSeq(s, 1, Len(s) - 1)) ELSE s

\* String.prototype.trim
Trim(s) == TrimEnd(TrimStart(s))

\* String.prototype.replace(/p/g, to) for a literal, non-empty p
RECURSIVE ReplaceAll(_, _, _)
ReplaceAll(s, p, to) ==
  LET k == IndexOf(s, p, 1) IN
  IF k = 0 THEN s
  ELSE SubSeq(s, 1, k - 1) \o to \o ReplaceAll(SubSeq(s, k + Len(p), Len(s)), p, to)

(***************************************************************************)
(* JavaScript values that reach the script from outside: a value is either *)
(* undefined or a string (process.env entries, argv entries).              *)
(***************************************************************************)
Undefined == [defined |-> FALSE, s |-> ""]

Str(s) == [defined |-> TRUE, s |-> s]

\* ToBoolean of an undefined-or-string value
Truthy(v) == v.defined /\ v.s # ""

\* a || b
OrElse(a, b) == IF Truthy(a) THEN a ELSE b

Digits == "0123456789"

IsDigit(c) == \E i \in 1..10 : Ch(Digits, i) = c

DigitVal(c) == (CHOOSE i \in 1..10 : Ch(Digits, i) = c) - 1

RECURSIVE DigitPrefixVal(_, _)
DigitPrefixVal(s, acc) ==
  IF Len(s) > 0 /\ IsDigit(Ch(s, 1))
  THEN DigitPrefixVal(SubSeq(s, 2, Len(s)), acc * 10 + DigitVal(Ch(s, 1)))
  ELSE acc

\* parseInt(v) in radix 10: leading white space, an optional sign, then the
\* longest prefix of digits; NaN when there is no digit.
ParseInt(v) ==
  LET s0   == TrimStart(IF v.defined THEN v.s ELSE "undefined")
      neg  == Len(s0) > 0 /\ Ch(s0, 1) = "-"
      s1   == IF Len(s0) > 0 /\ Ch(s0, 1) \in {"-", "+"} THEN SubSeq(s0, 2, Len(s0)) ELSE s0
      some == Len(s1) > 0 /\ IsDigit(Ch(s1, 1))
      n    == DigitPrefixVal(s1, 0)
  IN [nan |-> ~some, n |-> IF ~some THEN 0 ELSE IF neg THEN 0 - n ELSE n]

\* parseInt(v) || dflt : NaN and 0 are falsy
ParseIntOr(v, dflt) == LET r == ParseInt(v) IN IF r.nan \/ r.n = 0 THEN dflt ELSE r.n

UpperCase == "ABCDEFGHIJKLMNOPQRSTUVWXYZ"

LowerCase == "abcdefghijklmnopqrstuvwxyz"

LowerCh(c) ==
  IF \E i \in 1..26 : Ch(UpperCase, i) = c
  THEN Ch(LowerCase, CHOOSE i \in 1..26 : Ch(UpperCase, i) = c)
  ELSE c

\* String.prototype.toLowerCase
RECURSIVE ToLowerCase(_)
ToLowerCase(s) ==
  IF Len(s) = 0 THEN "" ELSE LowerCh(Ch(s, 1)) \o ToLowerCase(SubSeq(s, 2, Len(s)))

(***************************************************************************)
(* Environment: process.env restricted to the keys the script reads.       *)
(***************************************************************************)
EnvKeys ==
  {"AI_PROVIDER", "OPENAI_API_KEY", "DEEPSEEK_API_KEY", "OPENAI_BASE_URL", "OPENAI_MODEL",
   "AI_REVIEW_MAX_DIFF_SIZE", "AI_REVIEW_MAX_RETRIES", "AI_REVIEW_RETRY_DELAY",
   "AI_REVIEW_SKIP_BUILD", "undefined"}

EmptyEnv == [k \in EnvKeys |-> Undefined]

\* process.env[k]
EnvGet(e, k) == IF k \in EnvKeys THEN e[k] ELSE Undefined

\* one line of a .env file applied to process.env (the forEach body of loadEnv)
LoadEnvLine(e, line) ==
  LET trimmed == Trim(line)
      parts   == Split(trimmed, "=")
      key     == parts[1]
      vals    == Tail(parts)
  IN IF trimmed # "" /\ ~StartsWith(trimmed, "#") /\ key # "" /\ Len(vals) > 0
        /\ Trim(key) \in EnvKeys
     THEN [e EXCEPT ![Trim(key)] = Str(Trim(Join(vals, "=")))]
     ELSE e

RECURSIVE LoadEnvLines(_, _)
LoadEnvLines(e, lines) ==
  IF Len(lines) = 0 THEN e ELSE LoadEnvLines(LoadEnvLine(e, lines[1]), Tail(lines))

\* loadEnv(envPath): file is the content of the file at envPath, or Undefined
\* when fs.existsSync(envPath) is false
loadEnv(e, file) == IF file.defined THEN LoadEnvLines(e, Split(file.s, "\n")) ELSE e

(***************************************************************************)
(* Provider presets and getAIConfig                                        *)
(***************************************************************************)
ProviderNames == {"openai", "deepseek"}

AI_PROVIDERS ==
  [p \in ProviderNames |->
     IF p = "openai"
     THEN [baseURL |-> Str("https://api.openai.com/v1"), defaultModel |-> Str("gpt-4o-mini"),
           envKey |-> Str("OPENAI_API_KEY")]
     ELSE [baseURL |-> Str("https://api.deepseek.com"), defaultModel |-> Str("deepseek-chat"),
           envKey |-> Str("DEEPSEEK_API_KEY")]]

\* property names every object literal inherits from Object.prototype and that
\* are their own lower-case form; AI_PROVIDERS[name] is then a truthy value
\* that has none of the preset fields
InheritedKeys == {"constructor", "__proto__"}

InheritedPreset == [baseURL |-> Undefined, defaultModel |-> Undefined, envKey |-> Undefined]

\* AI_PROVIDERS[provider] || AI_PROVIDERS.openai
PresetOf(provider) ==
  IF provider \in ProviderNames THEN AI_PROVIDERS[provider]
  ELSE IF provider \in InheritedKeys THEN InheritedPreset
  ELSE AI_PROVIDERS["openai"]

\* `${x}` used as a property key
KeyString(v) == IF v.defined THEN v.s ELSE "undefined"

\* a resolution in which the preset beats the explicit override
getAIConfig_PresetFirst(e) ==
  LET provider == ToLowerCase(OrElse(EnvGet(e, "AI_PROVIDER"), Str("openai")).s)
      preset   == PresetOf(provider)
  IN [provider |-> provider,
      apiKey   |-> OrElse(EnvGet(e, KeyString(preset.envKey)), EnvGet(e, "OPENAI_API_KEY")),
      baseURL  |-> OrElse(preset.baseURL, EnvGet(e, "OPENAI_BASE_URL")),
      model    |-> OrElse(preset.defaultModel, EnvGet(e, "OPENAI_MODEL"))]

\* a resolution in which the generic key beats the provider's own key
getAIConfig_GenericKeyFirst(e) ==
  LET provider == ToLowerCase(OrElse(EnvGet(e, "AI_PROVIDER"), Str("openai")).s)
      preset   == PresetOf(provider)
  IN [provider |-> provider,
      apiKey   |-> OrElse(EnvGet(e, "OPENAI_API_KEY"), EnvGet(e, KeyString(preset.envKey))),
      baseURL  |-> OrElse(EnvGet(e, "OPENAI_BASE_URL"), preset.baseURL),
      model    |-> OrElse(EnvGet(e, "OPENAI_MODEL"), preset.defaultModel)]

\* lines 61-71
getAIConfig(e) ==
  LET provider == ToLowerCase(OrElse(EnvGet(e, "AI_PROVIDER"), Str("openai")).s)
      preset   == PresetOf(provider)
  IN [provider |-> provider,
      apiKey   |-> OrElse(EnvGet(e, KeyString(preset.envKey)), EnvGet(e, "OPENAI_API_KEY")),
      baseURL  |-> OrElse(EnvGet(e, "OPENAI_BASE_URL"), preset.baseURL),
      model    |-> OrElse(EnvGet(e, "OPENAI_MODEL"), preset.defaultModel)]

DefaultMaxDiffSize == 15000

DefaultMaxRetries == 3

DefaultRetryDelay == 1000

\* a configuration that never skips the build check
MakeConfig_NoSkipBuild(e) ==
  [maxDiffSize |-> ParseIntOr(EnvGet(e, "AI_REVIEW_MAX_DIFF_SIZE"), DefaultMaxDiffSize),
   skipBuild   |-> FALSE,
   maxRetries  |-> ParseIntOr(EnvGet(e, "AI_REVIEW_MAX_RETRIES"), DefaultMaxRetries),
   retryDelay  |-> ParseIntOr(EnvGet(e, "AI_REVIEW_RETRY_DELAY"), DefaultRetryDelay)]

\* the CONFIG object; timeout, buildCommand and verbose do not steer the run
\* and are left out
MakeConfig(e) ==
  [maxDiffSize |-> ParseIntOr(EnvGet(e, "AI_REVIEW_MAX_DIFF_SIZE"), DefaultMaxDiffSize),
   skipBuild   |-> (EnvGet(e, "AI_REVIEW_SKIP_BUILD") = Str("true")),
   maxRetries  |-> ParseIntOr(EnvGet(e, "AI_REVIEW_MAX_RETRIES"), DefaultMaxRetries),
   retryDelay  |-> ParseIntOr(EnvGet(e, "AI_REVIEW_RETRY_DELAY"), DefaultRetryDelay)]

(***************************************************************************)
(* .reviewignore: loadReviewIgnore, patternToRegex, shouldIgnoreFile       *)
(***************************************************************************)
\* the forEach body of loadReviewIgnore, folded over the lines of the file
RECURSIVE IgnoreLines(_)
IgnoreLines(lines) ==
  IF Len(lines) = 0 THEN <<>>
  ELSE LET trimmed == Trim(lines[1]) IN
       (IF trimmed # "" /\ ~StartsWith(trimmed, "#") THEN <<trimmed>> ELSE <<>>)
         \o IgnoreLines(Tail(lines))

\* a loader that reads every file it finds
loadReviewIgnore_Merge(rootFile, cwdFile) ==
  (IF rootFile.defined THEN IgnoreLines(Split(rootFile.s, "\n")) ELSE <<>>)
    \o (IF cwdFile.defined THEN IgnoreLines(Split(cwdFile.s, "\n")) ELSE <<>>)

\* loadReviewIgnore(): rootFile and cwdFile are the contents of
\* <projectRoot>/.reviewignore and <cwd>/.reviewignore, Undefined when absent
loadReviewIgnore(rootFile, cwdFile) ==
  IF rootFile.defined THEN IgnoreLines(Split(rootFile.s, "\n"))
  ELSE IF cwdFile.defined THEN IgnoreLines(Split(cwdFile.s, "\n"))
  ELSE <<>>

\* the characters of the class [.+^${}()|[\]\\]
RegexSpecial == {".", "+", "^", "$", "{", "}", "(", ")", "|", "[", "]", "\\"}

\* .replace(/[.+^${}()|[\]\\]/g, "\\$&")
RECURSIVE EscapeRegex(_)
EscapeRegex(s) ==
  IF Len(s) = 0 THEN ""
  ELSE (IF Ch(s, 1) \in RegexSpecial THEN "\\" \o Ch(s, 1) ELSE Ch(s, 1))
         \o EscapeRegex(SubSeq(s, 2, Len(s)))

\* the chain of replacements of patternToRegex (lines 182-192)
WildcardsToRegex(pattern) ==
  ReplaceAll(
    ReplaceAll(
      ReplaceAll(
        ReplaceAll(EscapeRegex(pattern), "**", "{{DOUBLE_STAR}}"),
        "*", "[^/]*"),
      "?", "[^/]"),
    "{{DOUBLE_STAR}}", ".*")

\* anchoring at the start (lines 194-200)
AnchorStart(pattern, regexStr) ==
  IF StartsWith(pattern, "/") THEN "^" \o SliceFrom(regexStr, 2) ELSE "(^|/)" \o regexStr

\* a compiled rule without its closing anchor
AnchorEnd_Open(pattern, regexStr) ==
  IF EndsWith(pattern, "/") THEN Slice(regexStr, 0, 0 - 2) \o "(/|$)" ELSE regexStr

\* anchoring at the end (lines 202-207)
AnchorEnd(pattern, regexStr) ==
  IF EndsWith(pattern, "/") THEN Slice(regexStr, 0, 0 - 2) \o "(/|$)" ELSE regexStr \o "($|/)"

\* the source text handed to new RegExp, and the negated flag
RECURSIVE patternToRegex(_)
patternToRegex(pattern) ==
  IF StartsWith(pattern, "!")
  THEN [regex |-> patternToRegex(SliceFrom(pattern, 1)).regex, negated |-> TRUE]
  ELSE [regex   |-> AnchorEnd(pattern, AnchorStart(pattern, WildcardsToRegex(pattern))),
        negated |-> FALSE]

(***************************************************************************)
(* new RegExp(src) and RegExp.prototype.test for the sources patternToRegex *)
(* produces.  Compile gives status "ok" with the alternatives, "syntax"    *)
(* when the constructor throws a SyntaxError, and "unsupported" for a      *)
(* source outside the fragment handled here.                               *)
(***************************************************************************)
Term(k, c, star) == [k |-> k, c |-> c, star |-> star]

\* the atom at the head of s: its term kind, character and length; len = 0
\* reports status st instead
AtomAt(s) ==
  LET c == Ch(s, 1) IN
  IF StartsWith(s, "(^|/)") THEN [st |-> "ok", k |-> "startb", c |-> "", len |-> 5]
  ELSE IF StartsWith(s, "($|/)") \/ StartsWith(s, "(/|$)")
       THEN [st |-> "ok", k |-> "endb", c |-> "", len |-> 5]
  ELSE IF StartsWith(s, "[^/]") THEN [st |-> "ok", k |-> "notslash", c |-> "", len |-> 4]
  ELSE IF c = "[" THEN
       (IF IndexOf(s, "]", 2) = 0 THEN [st |-> "syntax", k |-> "", c |-> "", len |-> 0]
        ELSE [st |-> "unsupported", k |-> "", c |-> "", len |-> 0])
  ELSE IF c = "\\" THEN
       (IF Len(s) = 1 THEN [st |-> "syntax", k |-> "", c |-> "", len |-> 0]
        ELSE IF Ch(s, 2) \in RegexSpecial \cup {"/", "*", "?"}
             THEN [st |-> "ok", k |-> "lit", c |-> Ch(s, 2), len |-> 2]
        ELSE [st |-> "unsupported", k |-> "", c |-> "", len |-> 0])
  ELSE IF c \in {")", "*", "+", "?"} THEN [st |-> "syntax", k |-> "", c |-> "", len |-> 0]
  ELSE IF c \in {"(", "{"} THEN [st |-> "unsupported", k |-> "", c |-> "", len |-> 0]
  ELSE IF c = "^" THEN [st |-> "ok", k |-> "bos", c |-> "", len |-> 1]
  ELSE IF c = "$" THEN [st |-> "ok", k |-> "eos", c |-> "", len |-> 1]
  ELSE IF c = "." THEN [st |-> "ok", k |-> "any", c |-> "", len |-> 1]
  ELSE [st |-> "ok", k |-> "lit", c |-> c, len |-> 1]

\* alts are the alternatives closed so far by a top-level "|", acc the terms
\* of the alternative being read
RECURSIVE CompileFrom(_, _, _)
CompileFrom(s, alts, acc) ==
  IF Len(s) = 0 THEN [st |-> "ok", alts |-> Append(alts, acc)]
  ELSE IF Ch(s, 1) = "|" THEN CompileFrom(SubSeq(s, 2, Len(s)), Append(alts, acc), <<>>)
  ELSE LET a    == AtomAt(s)
           rest == SubSeq(s, a.len + 1, Len(s))
           q    == IF Len(rest) > 0 THEN Ch(rest, 1) ELSE ""
       IN IF a.st # "ok" THEN [st |-> a.st, alts |-> <<>>]
          ELSE IF q = "*" THEN
            (IF a.k \in {"bos", "eos"} THEN [st |-> "syntax", alts |-> <<>>]
             ELSE IF a.k \in {"startb", "endb"} THEN [st |-> "unsupported", alts |-> <<>>]
             ELSE IF Len(rest) > 1 /\ Ch(rest, 2) \in {"*", "+"}
                  THEN [st |-> "syntax", alts |-> <<>>]
             ELSE IF Len(rest) > 1 /\ Ch(rest, 2) \in {"?", "{"}
                  THEN [st |-> "unsupported", alts |-> <<>>]
             ELSE CompileFrom(SubSeq(rest, 2, Len(rest)), alts, Append(acc, Term(a.k, a.c, TRUE))))
          ELSE IF q \in {"+", "?", "{"} THEN [st |-> "unsupported", alts |-> <<>>]
          ELSE CompileFrom(rest, alts, Append(acc, Term(a.k, a.c, FALSE)))

Compile(src) == CompileFrom(src, <<>>, <<>>)

\* positions (count of characters consumed) reachable from a position of S by
\* matching the term t once against path
StepOnce(t, S, path) ==
  LET n == Len(path)
      next(ok(_)) == {i + 1 : i \in {j \in S : j < n /\ ok(Ch(path, j + 1))}}
      isLit(x)    == x = t.c
      isAny(x)    == x \notin {"\n", "\r"}
      notSlash(x) == x # "/"
      isSlash(x)  == x = "/"
  IN CASE t.k = "lit"      -> next(isLit)
       [] t.k = "any"      -> next(isAny)
       [] t.k = "notslash" -> next(notSlash)
       [] t.k = "bos"      -> {i \in S : i = 0}
       [] t.k = "eos"      -> {i \in S : i = n}
       [] t.k = "startb"   -> {i \in S : i = 0} \cup next(isSlash)
       [] t.k = "endb"     -> {i \in S : i = n} \cup next(isSlash)

RECURSIVE StepStar(_, _, _)
StepStar(t, S, path) ==
  LET S2 == S \cup StepOnce(t, S, path) IN
  IF S2 = S THEN S ELSE StepStar(t, S2, path)

RECURSIVE MatchTerms(_, _, _)
MatchTerms(terms, S, path) ==
  IF Len(terms) = 0 \/ S = {} THEN S
  ELSE MatchTerms(Tail(terms),
                  IF terms[1].star THEN StepStar(terms[1], S, path)
                  ELSE StepOnce(terms[1], S, path),
                  path)

\* regex.test(path): the match may start at any position and take any of the
\* top-level alternatives
RegexTest(alts, path) ==
  \E a \in 1..Len(alts) : MatchTerms(alts[a], 0..Len(path), path) # {}

\* shouldIgnoreFile(filePath, patterns): throws when new RegExp rejects the
\* source of one of the patterns, otherwise the last matching pattern decides
RECURSIVE IgnoreFold(_, _, _)
IgnoreFold(filePath, patterns, ignored) ==
  IF Len(patterns) = 0 THEN [st |-> "ok", ignored |-> ignored]
  ELSE LET r == patternToRegex(patterns[1])
           c == Compile(r.regex)
       IN IF c.st # "ok" THEN [st |-> c.st, ignored |-> FALSE]
          ELSE IgnoreFold(filePath, Tail(patterns),
                          IF RegexTest(c.alts, filePath) THEN ~r.negated ELSE ignored)

\* a matcher that ignores a path as soon as one plain rule matches it
shouldIgnoreFile_NoNegation(filePath, patterns) ==
  [st      |-> IgnoreFold(filePath, patterns, FALSE).st,
   ignored |-> \E i \in DOMAIN patterns :
                 LET r == patternToRegex(patterns[i])
                     c == Compile(r.regex)
                 IN c.st = "ok" /\ ~r.negated /\ RegexTest(c.alts, filePath)]

shouldIgnoreFile(filePath, patterns) == IgnoreFold(filePath, patterns, FALSE)

(***************************************************************************)
(* filterDiff                                                              *)
(***************************************************************************)
DiffHeaderPrefix == "diff --git a/"

\* last position k with line[k..k+2] = " b/" that leaves both groups non-empty
RECURSIVE LastSplit(_, _)
LastSplit(line, k) ==
  IF k < Len(DiffHeaderPrefix) + 2 THEN 0
  ELSE IF SubSeq(line, k, k + 2) = " b/" THEN k
  ELSE LastSplit(line, k - 1)

\* a header match that reads the old side of the header
DiffMatch_OldSide(line) ==
  LET k == LastSplit(line, Len(line) - 3) IN
  IF StartsWith(line, DiffHeaderPrefix) /\ k # 0 /\ IndexOf(line, "\r", 1) = 0
  THEN Str(SubSeq(line, Len(DiffHeaderPrefix) + 1, k - 1))
  ELSE Undefined

\* line.match(/^diff --git a\/(.+) b\/(.+)$/)[2], Undefined when no match
DiffMatch(line) ==
  LET k == LastSplit(line, Len(line) - 3) IN
  IF StartsWith(line, DiffHeaderPrefix) /\ k # 0 /\ IndexOf(line, "\r", 1) = 0
  THEN Str(SubSeq(line, k + 3, Len(line)))
  ELSE Undefined

\* the for loop of filterDiff
RECURSIVE FilterLines(_, _, _, _)
FilterLines(lines, patterns, skip, kept) ==
  IF Len(lines) = 0 THEN [st |-> "ok", lines |-> kept]
  ELSE LET m  == DiffMatch(lines[1])
           r  == IF m.defined THEN shouldIgnoreFile(m.s, patterns)
                 ELSE [st |-> "ok", ignored |-> skip]
       IN IF r.st # "ok" THEN [st |-> r.st, lines |-> <<>>]
          ELSE FilterLines(Tail(lines), patterns, r.ignored,
                           IF r.ignored THEN kept ELSE Append(kept, lines[1]))

\* a filter that ends its output with one more line break
filterDiff_TrailingNewline(diff, ignorePatterns) ==
  IF Len(ignorePatterns) = 0 THEN [st |-> "ok", diff |-> diff]
  ELSE LET r == FilterLines(Split(diff, "\n"), ignorePatterns, FALSE, <<>>) IN
       [st |-> r.st, diff |-> Join(r.lines, "\n") \o "\n"]

\* a filter that trims what it returns
filterDiff_Trimmed(diff, ignorePatterns) ==
  IF Len(ignorePatterns) = 0 THEN [st |-> "ok", diff |-> Trim(diff)]
  ELSE LET r == FilterLines(Split(diff, "\n"), ignorePatterns, FALSE, <<>>) IN
       [st |-> r.st, diff |-> Trim(Join(r.lines, "\n"))]

\* filterDiff(diff, ignorePatterns): st = "syntax" when it throws
filterDiff(diff, ignorePatterns) ==
  IF Len(ignorePatterns) = 0 THEN [st |-> "ok", diff |-> diff]
  ELSE LET r == FilterLines(Split(diff, "\n"), ignorePatterns, FALSE, <<>>) IN
       [st |-> r.st, diff |-> Join(r.lines, "\n")]

(***************************************************************************)
(* Values of the parsed response (JSON.parse): type tag plus the text that *)
(* String(v) gives.                                                        *)
(***************************************************************************)
JV(t, s) == [t |-> t, s |-> s]

JUndefined == JV("undefined", "undefined")

JNull == JV("null", "null")

JTrue == JV("boolean", "true")

JFalse == JV("boolean", "false")

\* ToBoolean
TruthyJ(v) ==
  CASE v.t = "undefined" -> FALSE
    [] v.t = "null"      -> FALSE
    [] v.t = "boolean"   -> v.s = "true"
    [] v.t = "number"    -> v.s \notin {"0", "NaN"}
    [] v.t = "string"    -> v.s # ""

\* the content of completion.choices[0].message.content:
\*   kind "text"   - not JSON, JSON.parse throws
\*   kind "null"   - the JSON text null
\*   kind "scalar" - a JSON number
\*   kind "object" - a JSON object; a field that is missing is JUndefined
Content(kind, is_passed, reason, message) ==
  [kind |-> kind, is_passed |-> is_passed, reason |-> reason, message |-> message]

NonObject(kind) == Content(kind, JUndefined, JUndefined, JUndefined)

\* a heading written without the comment mark
AdviceHeading_Plain == "--- AI Review 建议 ---"

\* the heading of the advice block (line 472)
AdviceHeading == "# --- AI Review 建议 ---"

\* result.reason.split("\n").map((line) => `# ${line}`).join("\n")
RECURSIVE HashLines(_)
HashLines(lines) ==
  IF Len(lines) = 0 THEN <<>> ELSE <<"# " \o lines[1]>> \o HashLines(Tail(lines))

reasonLines(reason) == Join(HashLines(Split(reason, "\n")), "\n")

\* lines 452-488 as a function of the response content: what the branch does.
\*   act "throw" - an exception leaves the try block (JSON.parse, a property
\*                 read of null, reason.trim of a non-string, writeFileSync
\*                 of a non-string)
\*   act "write" - fs.writeFileSync(commitMsgFile, text) and process.exit(0)
\*   act "fail"  - process.exit(1)
HandleContent(c) ==
  LET withReason == TruthyJ(c.reason) /\ c.reason.t = "string" /\ Trim(c.reason.s) # ""
      commitMessage ==
        IF withReason
        THEN JV("string", c.message.s \o "\n\n" \o AdviceHeading \o "\n" \o reasonLines(c.reason.s))
        ELSE c.message
  IN IF c.kind = "text" THEN [act |-> "throw", name |-> "SyntaxError", text |-> ""]
     ELSE IF c.kind = "null" THEN [act |-> "throw", name |-> "TypeError", text |-> ""]
     ELSE IF ~TruthyJ(c.is_passed) THEN [act |-> "fail", name |-> "", text |-> ""]
     ELSE IF TruthyJ(c.reason) /\ c.reason.t # "string"
          THEN [act |-> "throw", name |-> "TypeError", text |-> ""]
     ELSE IF commitMessage.t # "string" THEN [act |-> "throw", name |-> "TypeError", text |-> ""]
     ELSE [act |-> "write", name |-> "", text |-> commitMessage.s]

(***************************************************************************)
(* Exceptions: a thrown value is an object with optional status and code,  *)
(* or the value undefined.                                                 *)
(***************************************************************************)
Err(name, status, code) == [defined |-> TRUE, name |-> name, status |-> status, code |-> code]

NoError == [defined |-> FALSE, name |-> "", status |-> 0, code |-> ""]

\* outcomes of one invocation of openai.chat.completions.create: "ok" or the
\* error it rejects with (status 0 stands for an error without a status)
OpOutcomes ==
  { [ok |-> TRUE,  err |-> NoError],
    [ok |-> FALSE, err |-> Err("AuthenticationError", 401, "")],
    [ok |-> FALSE, err |-> Err("PermissionDeniedError", 403, "")],
    [ok |-> FALSE, err |-> Err("RateLimitError", 429, "")],
    [ok |-> FALSE, err |-> Err("InternalServerError", 500, "")],
    [ok |-> FALSE, err |-> Err("APIConnectionTimeoutError", 0, "")] }

(***************************************************************************)
(* Inputs of a run                                                         *)
(***************************************************************************)
\* process.argv[3]: unset for an interactive commit
CommitSources ==
  {Undefined, Str("message"), Str("template"), Str("merge"), Str("squash"), Str("commit")}

\* a gate that skips an explicit message only
SkippedSources_OnlyMessage == {"message"}

\* a gate that lets an explicit message through
SkippedSources_NoMessage == {"merge", "squash", "commit"}

\* the tags the gate skips (line 273)
SkippedSources == {"message", "merge", "squash", "commit"}

\* largest AI_REVIEW_MAX_RETRIES written as a digit in the explored settings
MaxCfgRetries == 2

\* credential settings: the inherited process.env and the two .env files
KeySetups ==
  { [env |-> EmptyEnv, rootEnv |-> Undefined, cwdEnv |-> Undefined],
    [env |-> [EmptyEnv EXCEPT !["OPENAI_API_KEY"] = Str("sk-openai")],
     rootEnv |-> Undefined, cwdEnv |-> Undefined],
    [env |-> EmptyEnv,
     rootEnv |-> Str("# provider\nAI_PROVIDER=DeepSeek\nDEEPSEEK_API_KEY = sk-deepseek\n"),
     cwdEnv |-> Undefined],
    [env |-> [EmptyEnv EXCEPT !["OPENAI_API_KEY"] = Str("sk-openai")],
     rootEnv |-> Undefined, cwdEnv |-> Str("OPENAI_API_KEY=\n")] }

KeyedSetup ==
  [env |-> [EmptyEnv EXCEPT !["OPENAI_API_KEY"] = Str("sk-openai")],
   rootEnv |-> Undefined, cwdEnv |-> Undefined]

\* behaviour settings, as assignments to process.env
Tunings ==
  { [k \in {"AI_REVIEW_MAX_RETRIES"} |-> Ch(Digits, n + 1)] : n \in 1..MaxCfgRetries }
    \cup
  { [k \in {"AI_REVIEW_MAX_RETRIES"} |-> "-1"],
    [k \in {"AI_REVIEW_MAX_RETRIES"} |-> "0"],
    [k \in {"AI_REVIEW_MAX_RETRIES", "AI_REVIEW_RETRY_DELAY"} |->
       IF k = "AI_REVIEW_MAX_RETRIES" THEN "abc" ELSE "7"],
    [k \in {"AI_REVIEW_RETRY_DELAY"} |-> "-5"],
    [k \in {"AI_REVIEW_SKIP_BUILD"} |-> "true"],
    [k \in {"AI_REVIEW_MAX_DIFF_SIZE"} |-> "40"],
    [k \in {"AI_REVIEW_MAX_DIFF_SIZE"} |-> "-3"] }

Tuned(e, t) == [k \in EnvKeys |-> IF k \in DOMAIN t THEN Str(t[k]) ELSE e[k]]

Scenarios ==
  { [src |-> c, env |-> k.env, rootEnv |-> k.rootEnv, cwdEnv |-> k.cwdEnv] :
      c \in CommitSources, k \in KeySetups }
    \cup
  { [src |-> Undefined, env |-> Tuned(KeyedSetup.env, t),
     rootEnv |-> KeyedSetup.rootEnv, cwdEnv |-> KeyedSetup.cwdEnv] : t \in Tunings }

\* contents of <projectRoot>/.reviewignore and <cwd>/.reviewignore
IgnoreSetups ==
  { [root |-> Undefined, cwd |-> Undefined],
    [root |-> Str("# generated\ndist/\n"), cwd |-> Undefined],
    [root |-> Str("*.md\n!README.md\n"), cwd |-> Undefined],
    [root |-> Undefined, cwd |-> Str("dist\n\n*.js\n")],
    [root |-> Str("# nothing\n"), cwd |-> Str("*.md\n")],
    [root |-> Str("?/\n"), cwd |-> Undefined],
    [root |-> Str("  # note\r\n\n  src/b.js  \n \n!README.md"), cwd |-> Str("*.md\n")] }

\* outputs of git diff --cached
StagedDiffs ==
  { "",
    "diff --git a/dist/a.js b/dist/a.js\n+x\n",
    "diff --git a/README.md b/README.md\n+r\ndiff --git a/src/b.js b/src/b.js\n+y\n",
    "diff --git a/CHANGELOG.md b/CHANGELOG.md\n+c\n" }

IsPassedValues == {JTrue, JFalse, JUndefined, JV("string", "false")}

ReasonValues ==
  {JUndefined, JV("string", ""), JV("string", "  "), JV("string", "r1\nr2"), JV("number", "5")}

MessageValues ==
  {JUndefined, JV("string", "feat(auth): add token check"), JV("string", ""),
   JV("string", "update files")}

Responses ==
  { NonObject("text"), NonObject("null"), NonObject("scalar") }
    \cup
  { Content("object", p, r, m) : p \in IsPassedValues, r \in ReasonValues, m \in MessageValues }

\* content of the commit-message file when the hook starts
OrigMsg == "# Please enter the commit message\n"

(***************************************************************************)
(* State                                                                   *)
(***************************************************************************)
VARIABLES
  pc,             \* the statement the script is at
  commitSource,   \* process.argv[3]
  env,            \* process.env
  dotEnv,         \* the two .env files: [root, cwd]
  aiConfig,       \* const aiConfig = getAIConfig()
  CONFIG,         \* const CONFIG
  ignorePatterns, \* const ignorePatterns in runAIReview
  diff,           \* let diff in runAIReview
  truncatedDiff,  \* const truncatedDiff
  buildResult,    \* history: "none", "skipped", "passed" or "failed"
  warned,         \* the "Diff too large" warning was printed
  attempt,        \* loop variable of callWithRetry
  lastError,      \* let lastError in callWithRetry
  outcomes,       \* history: outcome of every invocation of the operation
  waits,          \* history: every sleep(waitTime) of callWithRetry
  retryEnd,       \* how callWithRetry ended: "", "done" or "raised"
  response,       \* the content of the completion handled at lines 452-488
  error,          \* the exception caught at line 489
  caught,         \* the catch block was entered
  msgFile,        \* content of the commit-message file
  writes,         \* number of fs.writeFileSync(commitMsgFile, ...) calls
  exitCode,       \* process exit code, -1 while running
  steps,          \* history: the external effects of the run, in order
  command,        \* process.argv[2] of the ai-review command, "" when it is not run
  repo,           \* files of the project the ai-review command touches
  commitKind,     \* how git was asked to commit, "" when the hook is run by hand
  reviewIgnore    \* contents of <projectRoot>/.reviewignore and <cwd>/.reviewignore

vars ==
  <<pc, commitSource, env, dotEnv, aiConfig, CONFIG, ignorePatterns, diff, truncatedDiff,
    buildResult, warned, attempt, lastError, outcomes, waits, retryEnd, response, error, caught, msgFile,
    writes, exitCode, steps, command, repo, commitKind, reviewIgnore>>

\* the state of the ai-review command and the .reviewignore files, which no
\* step of the hook changes
cliVars == <<command, repo, commitKind, reviewIgnore>>

\* a project without .reviewignore files
NoIgnoreFiles == [root |-> Undefined, cwd |-> Undefined]

\* a project the ai-review command has not been run in
NoRepo == [gitignore |-> Undefined, prepareCommitMsg |-> Undefined, commitMsg |-> Undefined]

NoConfig == [maxDiffSize |-> 0, skipBuild |-> FALSE, maxRetries |-> 0, retryDelay |-> 0]

NoAIConfig == [provider |-> "", apiKey |-> Undefined, baseURL |-> Undefined, model |-> Undefined]

NoResponse == NonObject("none")

Init ==
  \E sc \in Scenarios, f \in IgnoreSetups :
    /\ reviewIgnore = f
    /\ pc = "start"
    /\ commitSource = sc.src
    /\ env = sc.env
    /\ dotEnv = [root |-> sc.rootEnv, cwd |-> sc.cwdEnv]
    /\ aiConfig = NoAIConfig
    /\ CONFIG = NoConfig
    /\ ignorePatterns = <<>>
    /\ diff = ""
    /\ truncatedDiff = ""
    /\ buildResult = "none"
    /\ warned = FALSE
    /\ attempt = 0
    /\ lastError = NoError
    /\ outcomes = <<>>
    /\ waits = <<>>
    /\ retryEnd = ""
    /\ response = NoResponse
    /\ error = NoError
    /\ caught = FALSE
    /\ msgFile = OrigMsg
    /\ writes = 0
    /\ exitCode = -1
    /\ steps = <<>>
    /\ command = ""
    /\ repo = NoRepo
    /\ commitKind = ""

(***************************************************************************)
(* Actions                                                                 *)
(***************************************************************************)
\* process.exit(code)
Exit(code) == pc' = "exited" /\ exitCode' = code

\* an exception leaves the try block of runAIReview
Throw(e) == pc' = "catch" /\ error' = e

\* lines 38-85: findProjectRoot, the two loadEnv calls, getAIConfig, CONFIG
LoadEnvironment ==
  /\ pc = "start"
  /\ LET e == loadEnv(loadEnv(env, dotEnv.root), dotEnv.cwd) IN
       /\ env' = e
       /\ aiConfig' = getAIConfig(e)
       /\ CONFIG' = MakeConfig(e)
  /\ steps' = Append(steps, "loadEnv")
  /\ pc' = "gate"
  /\ UNCHANGED cliVars
  /\ UNCHANGED <<commitSource, dotEnv, buildResult, ignorePatterns, diff, truncatedDiff, warned, attempt,
                 lastError, outcomes, waits, retryEnd, response, error, caught, msgFile,
                 writes, exitCode>>

\* lines 261-282: the commit-source gate
Gate ==
  /\ pc = "gate"
  /\ steps' = Append(steps, "gate")
  /\ IF commitSource.defined /\ commitSource.s \in SkippedSources
     THEN Exit(0)
     ELSE pc' = "apiKey" /\ UNCHANGED exitCode
  /\ UNCHANGED cliVars
  /\ UNCHANGED <<commitSource, env, dotEnv, buildResult, aiConfig, CONFIG, ignorePatterns, diff,
                 truncatedDiff, warned, attempt, lastError, outcomes, waits, retryEnd,
                 response, error, caught, msgFile, writes>>

\* a check that only catches the unset credential
MissingApiKey_UndefinedOnly(cfg) == ~cfg.apiKey.defined

\* line 284: !aiConfig.apiKey
MissingApiKey(cfg) == ~Truthy(cfg.apiKey)

\* lines 284-293: the credential check (then the client is built, 312-319)
ApiKeyCheck ==
  /\ pc = "apiKey"
  /\ steps' = Append(steps, "apiKey")
  /\ IF MissingApiKey(aiConfig)
     THEN Exit(0)
     ELSE pc' = "loadIgnore" /\ UNCHANGED exitCode
  /\ UNCHANGED cliVars
  /\ UNCHANGED <<commitSource, env, dotEnv, buildResult, aiConfig, CONFIG, ignorePatterns, diff,
                 truncatedDiff, warned, attempt, lastError, outcomes, waits, retryEnd,
                 response, error, caught, msgFile, writes>>

\* line 361: loadReviewIgnore(); reading the file may fail
LoadIgnore ==
  /\ pc = "loadIgnore"
  /\ steps' = Append(steps, "loadIgnore")
  /\ \/ /\ ignorePatterns' = loadReviewIgnore(reviewIgnore.root, reviewIgnore.cwd)
        /\ pc' = "readDiff"
        /\ UNCHANGED error
     \/ /\ Throw(Err("Error", 0, "EACCES"))
        /\ UNCHANGED ignorePatterns
  /\ UNCHANGED cliVars
  /\ UNCHANGED <<commitSource, env, dotEnv, buildResult, aiConfig, CONFIG, diff, truncatedDiff, warned,
                 attempt, lastError, outcomes, waits, retryEnd, response, caught, msgFile,
                 writes, exitCode>>

\* lines 369-375: git diff --cached and the empty check; execSync throws when
\* git exits non-zero
ReadDiff ==
  /\ pc = "readDiff"
  /\ steps' = Append(steps, "gitDiff")
  /\ \/ \E d \in StagedDiffs :
          /\ diff' = d
          /\ IF Trim(d) = "" THEN Exit(0) ELSE pc' = "filter" /\ UNCHANGED exitCode
          /\ UNCHANGED error
     \/ /\ Throw(Err("Error", 128, ""))
        /\ UNCHANGED <<diff, exitCode>>
  /\ UNCHANGED cliVars
  /\ UNCHANGED <<commitSource, env, dotEnv, buildResult, aiConfig, CONFIG, ignorePatterns, truncatedDiff,
                 warned, attempt, lastError, outcomes, waits, retryEnd, response, caught,
                 msgFile, writes>>

\* lines 380-385: filterDiff and the empty check
FilterStep ==
  /\ pc = "filter"
  /\ steps' = Append(steps, "filter")
  /\ LET r == filterDiff(diff, ignorePatterns) IN
       IF r.st # "ok"
       THEN Throw(Err("SyntaxError", 0, "")) /\ UNCHANGED <<diff, exitCode>>
       ELSE /\ diff' = r.diff
            /\ IF Trim(r.diff) = "" THEN Exit(0) ELSE pc' = "build" /\ UNCHANGED exitCode
            /\ UNCHANGED error
  /\ UNCHANGED cliVars
  /\ UNCHANGED <<commitSource, env, dotEnv, buildResult, aiConfig, CONFIG, ignorePatterns, truncatedDiff,
                 warned, attempt, lastError, outcomes, waits, retryEnd, response, caught,
                 msgFile, writes>>

\* lines 390-408: the build check
BuildCheck ==
  /\ pc = "build"
  /\ IF CONFIG.skipBuild
     THEN pc' = "truncate" /\ buildResult' = "skipped" /\ UNCHANGED <<exitCode, steps>>
     ELSE /\ steps' = Append(steps, "build")
          /\ \E passed \in BOOLEAN :
               IF passed
               THEN pc' = "truncate" /\ buildResult' = "passed" /\ UNCHANGED exitCode
               ELSE Exit(1) /\ buildResult' = "failed"
  /\ UNCHANGED cliVars
  /\ UNCHANGED <<commitSource, env, dotEnv, aiConfig, CONFIG, ignorePatterns, diff,
                 truncatedDiff, warned, attempt, lastError, outcomes, waits, retryEnd,
                 response, error, caught, msgFile, writes>>

\* lines 411-423 and 117-119: the size cap, then callWithRetry is entered
Truncate ==
  /\ pc = "truncate"
  /\ warned' = (Len(diff) > CONFIG.maxDiffSize)
  /\ truncatedDiff' = Slice(diff, 0, CONFIG.maxDiffSize)
  /\ attempt' = 1
  /\ lastError' = NoError
  /\ pc' = "call"
  /\ UNCHANGED cliVars
  /\ UNCHANGED <<commitSource, env, dotEnv, buildResult, aiConfig, CONFIG, ignorePatterns, diff, outcomes,
                 waits, retryEnd, response, error, caught, msgFile, writes, exitCode, steps>>

\* a rate-limit wait without the doubling
RateLimitWait_NoDouble(n) == CONFIG.retryDelay * n

\* line 132: the wait after a rate-limited failure on attempt n
RateLimitWait(n) == CONFIG.retryDelay * n * 2

\* a transient wait that does not grow with the attempt
TransientWait_Flat(n) == CONFIG.retryDelay

\* line 140: the wait after a transient failure on attempt n
TransientWait(n) == CONFIG.retryDelay * n

\* a classification that gives up on an error without a status
IsFatal_AlsoNoStatus(e) == e.status \in {401, 403, 0}

\* a classification that retries 403
IsFatal_Only401(e) == e.status = 401

\* line 126: the errors that are not retried
IsFatal(e) == e.status = 401 \/ e.status = 403

\* line 131: the rate-limited errors
IsRateLimited(e) == e.status = 429

\* a loop with twice the budget
LoopContinues_Twice(n, retries) == n <= 2 * retries

\* a loop that runs one pass too many
LoopContinues_OneMore(n, retries) == n <= retries + 1

\* line 119: the loop condition attempt <= retries
LoopContinues(n, retries) == n <= retries

\* a loop that remembers the first failure
NextLastError_First(last, e) == IF last.defined THEN last ELSE e

\* line 123: lastError = error
NextLastError(last, e) == e

\* lines 119-144: one pass of the for loop of callWithRetry: the operation is
\* invoked and its outcome handled up to the sleep
CallAttempt ==
  /\ pc = "call"
  /\ LoopContinues(attempt, CONFIG.maxRetries)
  /\ \E o \in OpOutcomes :
       /\ outcomes' = Append(outcomes, [attempt |-> attempt, ok |-> o.ok, err |-> o.err])
       /\ steps' = Append(steps, "remote")
       /\ IF o.ok
          THEN /\ retryEnd' = "done"
               /\ pc' = "result"
               /\ UNCHANGED <<lastError, waits, attempt, error>>
          ELSE /\ lastError' = NextLastError(lastError, o.err)
               /\ IF IsFatal(o.err)
                  THEN /\ retryEnd' = "raised"
                       /\ Throw(o.err)
                       /\ UNCHANGED <<waits, attempt>>
                  ELSE IF IsRateLimited(o.err)
                  THEN /\ waits' = Append(waits, [attempt |-> attempt, status |-> o.err.status,
                                                  ms |-> RateLimitWait(attempt)])
                       /\ pc' = "backoff"
                       /\ UNCHANGED <<retryEnd, attempt, error>>
                  ELSE IF attempt < CONFIG.maxRetries
                  THEN /\ waits' = Append(waits, [attempt |-> attempt, status |-> o.err.status,
                                                  ms |-> TransientWait(attempt)])
                       /\ pc' = "backoff"
                       /\ UNCHANGED <<retryEnd, attempt, error>>
                  ELSE /\ attempt' = attempt + 1
                       /\ pc' = "call"
                       /\ UNCHANGED <<retryEnd, waits, error>>
  /\ UNCHANGED cliVars
  /\ UNCHANGED <<commitSource, env, dotEnv, buildResult, aiConfig, CONFIG, ignorePatterns, diff,
                 truncatedDiff, warned, response, caught, msgFile, writes, exitCode>>

\* lines 134-135, 142: the sleep is over, the loop goes to the next attempt
BackoffDone ==
  /\ pc = "backoff"
  /\ attempt' = attempt + 1
  /\ pc' = "call"
  /\ UNCHANGED cliVars
  /\ UNCHANGED <<commitSource, env, dotEnv, buildResult, aiConfig, CONFIG, ignorePatterns, diff,
                 truncatedDiff, warned, lastError, outcomes, waits, retryEnd, response, error,
                 caught, msgFile, writes, exitCode, steps>>

\* line 146: the loop is left, throw lastError
CallExhausted ==
  /\ pc = "call"
  /\ ~LoopContinues(attempt, CONFIG.maxRetries)
  /\ retryEnd' = "raised"
  /\ Throw(lastError)
  /\ UNCHANGED cliVars
  /\ UNCHANGED <<commitSource, env, dotEnv, buildResult, aiConfig, CONFIG, ignorePatterns, diff,
                 truncatedDiff, warned, attempt, lastError, outcomes, waits, response, caught,
                 msgFile, writes, exitCode, steps>>

\* lines 452-488: JSON.parse and the verdict branches
HandleResult ==
  /\ pc = "result"
  /\ \E c \in Responses :
       LET h == HandleContent(c) IN
         /\ response' = c
         /\ CASE h.act = "throw" ->
                   /\ Throw(Err(h.name, 0, ""))
                   /\ UNCHANGED <<msgFile, writes, exitCode, steps>>
              [] h.act = "write" ->
                   /\ msgFile' = h.text
                   /\ writes' = writes + 1
                   /\ steps' = Append(steps, "write")
                   /\ Exit(0)
                   /\ UNCHANGED error
              [] h.act = "fail" ->
                   /\ Exit(1)
                   /\ UNCHANGED <<msgFile, writes, steps, error>>
  /\ UNCHANGED cliVars
  /\ UNCHANGED <<commitSource, env, dotEnv, buildResult, aiConfig, CONFIG, ignorePatterns, diff,
                 truncatedDiff, warned, attempt, lastError, outcomes, waits, retryEnd, caught>>

\* the message the catch block prints (lines 490-500)
Advisory(e) ==
  IF e.code = "ECONNREFUSED" \/ e.code = "ETIMEDOUT" THEN "network"
  ELSE IF e.status = 401 THEN "invalidKey"
  ELSE IF e.status = 429 THEN "rateLimit"
  ELSE "other"

\* lines 489-505: the catch block.  Reading error.code of the value undefined
\* throws inside the handler; the promise of runAIReview() is then rejected
\* with nobody handling it and Node ends the process with code 1.
CatchError ==
  /\ pc = "catch"
  /\ caught' = TRUE
  /\ IF error.defined
     THEN /\ steps' = Append(steps, Advisory(error))
          /\ Exit(0)
     ELSE /\ steps' = Append(steps, "unhandledRejection")
          /\ Exit(1)
  /\ UNCHANGED cliVars
  /\ UNCHANGED <<commitSource, env, dotEnv, buildResult, aiConfig, CONFIG, ignorePatterns, diff,
                 truncatedDiff, warned, attempt, lastError, outcomes, waits, retryEnd,
                 response, error, msgFile, writes>>

Next ==
  \/ LoadEnvironment
  \/ Gate
  \/ ApiKeyCheck
  \/ LoadIgnore
  \/ ReadDiff
  \/ FilterStep
  \/ BuildCheck
  \/ Truncate
  \/ CallAttempt
  \/ BackoffDone
  \/ CallExhausted
  \/ HandleResult
  \/ CatchError

Spec == Init /\ [][Next]_vars

(***************************************************************************)
(* The filter step on its own: runs that have reached line 380 with a     *)
(* wider choice of rule sets and diff texts than the whole-run behaviours  *)
(* above explore.                                                          *)
(***************************************************************************)
\* the rule sets loadReviewIgnore can return (trimmed, non-empty, no comment)
RuleSets ==
  { <<>>,
    <<"dist/">>, <<"dist">>, <<"/foo">>, <<"foo/">>, <<"a.b">>, <<"a+b">>, <<"(x)">>,
    <<"src/b.js">>, <<"README.md">>, <<"*.snap">>, <<"?/">>,
    <<"*.md", "!README.md">>, <<"!README.md", "*.md">>, <<"dist/", "*.md">>,
    <<"tmp*/">>, <<"a?c.js">>, <<"a*.js">>, <<"docs/**/x.md">>, <<"**/*.snap">>,
    <<"!">>, <<"*.md", "!">>, <<"!", "*.md">>, <<"*.md", "!", "!README.md">>, <<"dist", "!">> }

\* file paths named in the headers of a diff text
DiffPaths ==
  {"dist/a.js", "src/dist/c.js", "README.md", "CHANGELOG.md", "src/b.js",
   "/foo", "foo/", "a.b", "a+b", "(x)", "foo", "foo/bar", "a/foo", "mydist/a.js",
   "tmp/x", "tmpab/x", "docs/p/q/x.md", "abc.js", "a/c.js", "ABC.js", "axb", "a.snap", "x/a.snap", "x/y/a.snap"}

\* the segment git prints for one changed file
Segment(path) == "diff --git a/" \o path \o " b/" \o path \o "\n+x\n"

\* the segment git prints for a file that was moved
Renamed(old, new) == "diff --git a/" \o old \o " b/" \o new \o "\n+x\n"

\* diff texts handed to filterDiff: one segment, or several, text before the
\* first header, and moved files
DiffTexts ==
  { Segment(f) : f \in DiffPaths }
    \cup
  { Segment("README.md") \o Segment("CHANGELOG.md"),
    Segment("dist/a.js") \o Segment("src/b.js"),
    Segment("dist/a.js") \o Segment("src/dist/c.js"),
    Segment("CHANGELOG.md") \o Segment("src/b.js") \o Segment("README.md"),
    "index 000\n" \o Segment("CHANGELOG.md") \o Segment("src/b.js"),
    Renamed("CHANGELOG.md", "src/b.js"),
    Renamed("src/b.js", "CHANGELOG.md") \o Segment("README.md") }

\* the state of a run with a credential that has loaded the rules R and read
\* the staged diff d
IgnoreInit ==
  \E R \in RuleSets, d \in DiffTexts :
    /\ reviewIgnore = NoIgnoreFiles
    /\ pc = "filter"
    /\ commitSource = Undefined
    /\ env = KeyedSetup.env
    /\ dotEnv = [root |-> Undefined, cwd |-> Undefined]
    /\ aiConfig = getAIConfig(KeyedSetup.env)
    /\ CONFIG = MakeConfig(KeyedSetup.env)
    /\ ignorePatterns = R
    /\ diff = d
    /\ truncatedDiff = ""
    /\ buildResult = "none"
    /\ warned = FALSE
    /\ attempt = 0
    /\ lastError = NoError
    /\ outcomes = <<>>
    /\ waits = <<>>
    /\ retryEnd = ""
    /\ response = NoResponse
    /\ error = NoError
    /\ caught = FALSE
    /\ msgFile = OrigMsg
    /\ writes = 0
    /\ exitCode = -1
    /\ steps = <<"loadEnv", "gate", "apiKey", "loadIgnore", "gitDiff">>
    /\ command = ""
    /\ repo = NoRepo
    /\ commitKind = ""

IgnoreNext == FilterStep

IgnoreSpec == IgnoreInit /\ [][IgnoreNext]_vars

(***************************************************************************)
(* The configuration step on its own: the module-level statements of lines *)
(* 38-85 over a wider choice of provider settings.                         *)
(***************************************************************************)
\* values of AI_PROVIDER
ProviderChoices ==
  {Undefined, Str(""), Str("openai"), Str("deepseek"), Str("DeepSeek"), Str("DEEPSEEK"),
   Str("claude"), Str("constructor")}

\* process.env as the hook inherits it
ProviderEnvs ==
  { [EmptyEnv EXCEPT !["AI_PROVIDER"] = p, !["OPENAI_BASE_URL"] = u, !["OPENAI_MODEL"] = m,
                     !["OPENAI_API_KEY"] = g, !["DEEPSEEK_API_KEY"] = k] :
      p \in ProviderChoices,
      u \in {Undefined, Str("http://localhost:8080/v1")},
      m \in {Undefined, Str("my-model")},
      g \in {Undefined, Str(""), Str("sk-generic")},
      k \in {Undefined, Str(""), Str("sk-deepseek")} }

\* the .env file of the working directory
ProviderDotEnvs == {Undefined, Str("AI_PROVIDER=deepseek\nOPENAI_MODEL=\n")}

ConfigInit ==
  \E e \in ProviderEnvs, f \in ProviderDotEnvs :
    /\ reviewIgnore = NoIgnoreFiles
    /\ pc = "start"
    /\ commitSource = Undefined
    /\ env = e
    /\ dotEnv = [root |-> Undefined, cwd |-> f]
    /\ aiConfig = NoAIConfig
    /\ CONFIG = NoConfig
    /\ ignorePatterns = <<>>
    /\ diff = ""
    /\ truncatedDiff = ""
    /\ buildResult = "none"
    /\ warned = FALSE
    /\ attempt = 0
    /\ lastError = NoError
    /\ outcomes = <<>>
    /\ waits = <<>>
    /\ retryEnd = ""
    /\ response = NoResponse
    /\ error = NoError
    /\ caught = FALSE
    /\ msgFile = OrigMsg
    /\ writes = 0
    /\ exitCode = -1
    /\ steps = <<>>
    /\ command = ""
    /\ repo = NoRepo
    /\ commitKind = ""

ConfigNext == LoadEnvironment

ConfigSpec == ConfigInit /\ [][ConfigNext]_vars

(***************************************************************************)
(* The ai-review command (bin/cli.mjs): init and setup install the Git     *)
(* hook and prepare the project files.                                     *)
(***************************************************************************)
\* the hook script an earlier release installed as .husky/prepare-commit-msg
OLD_HOOK_CONTENT ==
  "#!/bin/sh\n\n# AI Code Review Hook\nnpx ai-review-hook \"$1\" \"$2\"\n"

\* the hook script setupHook writes to .husky/commit-msg (its two comment
\* lines in Chinese, which the shell skips, are left out)
HOOK_CONTENT ==
  "#!/bin/sh\n\n# AI Code Review Hook\nnpx ai-review-hook \"$1\"\n"

\* String.prototype.includes
Includes(s, p) == IndexOf(s, p, 1) > 0

\* what setupHook appends to .gitignore
GitignoreBlock == "\n# Environment variables\n.env\n.env.local\n"

\* setupHook(): the files of the project after the call
setupHook(r) ==
  LET gitignoreContent == IF r.gitignore.defined THEN r.gitignore.s ELSE "" IN
  [gitignore        |-> IF ~Includes(gitignoreContent, ".env")
                        THEN Str(gitignoreContent \o GitignoreBlock)
                        ELSE r.gitignore,
   prepareCommitMsg |-> Undefined,
   commitMsg        |-> Str(HOOK_CONTENT)]

\* process.argv[2] of the command; "" stands for no argument
Commands == {"init", "setup", "help", ""}

\* the project before the command runs
Repos ==
  { [gitignore |-> g, prepareCommitMsg |-> h, commitMsg |-> c] :
      g \in {Undefined, Str(""), Str("node_modules\n"), Str("node_modules\n.env.example\n"),
             Str(".env.example"), Str("dist\n.env\n"), Str("# keep .env out\n")},
      h \in {Undefined, Str(OLD_HOOK_CONTENT)},
      c \in {Undefined, Str(HOOK_CONTENT)} }

CliInit ==
  \E c \in Commands, r \in Repos :
    /\ reviewIgnore = NoIgnoreFiles
    /\ pc = "cli"
    /\ command = c
    /\ repo = r
    /\ commitKind = ""
    /\ commitSource = Undefined
    /\ env = KeyedSetup.env
    /\ dotEnv = [root |-> Undefined, cwd |-> Undefined]
    /\ aiConfig = NoAIConfig
    /\ CONFIG = NoConfig
    /\ ignorePatterns = <<>>
    /\ diff = ""
    /\ truncatedDiff = ""
    /\ buildResult = "none"
    /\ warned = FALSE
    /\ attempt = 0
    /\ lastError = NoError
    /\ outcomes = <<>>
    /\ waits = <<>>
    /\ retryEnd = ""
    /\ response = NoResponse
    /\ error = NoError
    /\ caught = FALSE
    /\ msgFile = ""
    /\ writes = 0
    /\ exitCode = -1
    /\ steps = <<>>

\* what the checks of initHusky can find: the directory is no Git
\* repository, npm install husky fails, or everything is in place
InitOutcomes == {"notGit", "installFails", "ok"}

\* the switch at the end of cli.mjs with initHusky and setupHook
RunCli ==
  /\ pc = "cli"
  /\ \/ /\ command = "init"
        /\ \E o \in InitOutcomes :
             IF o = "ok"
             THEN repo' = setupHook(repo) /\ pc' = "installed" /\ exitCode' = 0
             ELSE UNCHANGED repo /\ Exit(1)
     \/ /\ command = "setup"
        /\ repo' = setupHook(repo)
        /\ pc' = "installed"
        /\ exitCode' = 0
     \/ /\ command \notin {"init", "setup"}
        /\ UNCHANGED repo
        /\ Exit(0)
  /\ UNCHANGED <<reviewIgnore, command, commitKind, commitSource, env, dotEnv, aiConfig, CONFIG,
                 ignorePatterns, diff, truncatedDiff, buildResult, warned, attempt,
                 lastError, outcomes, waits, retryEnd, response, error, caught, msgFile,
                 writes, steps>>

CliNext == RunCli

CliSpec == CliInit /\ [][CliNext]_vars

(***************************************************************************)
(* A commit in a project where ai-review setup has run: Git starts the     *)
(* installed hook script, which starts the hook.                           *)
(***************************************************************************)
\* the ways to commit: "" is a plain git commit, the others are the sources
\* Git names for -m/-F, -t, a merge, a squash and -c/-C/--amend
CommitKinds == {"", "message", "template", "merge", "squash", "commit"}

\* the message Git has in hand when the commit-msg hook runs
UserMessage(kind) ==
  CASE kind = "message" -> "feat: your manual message\n"
    [] kind = "merge"   -> "Merge branch 'feature-branch'\n"
    [] kind = "squash"  -> "Squashed commit of the following:\n"
    [] kind = "commit"  -> "fix: the amended message\n"
    [] OTHER            -> "wip\n"

\* the arguments Git gives a hook: commit-msg gets the message file only,
\* prepare-commit-msg gets the file and the source of the message
GitHookArgs(hook, kind) ==
  IF hook = "prepare-commit-msg" /\ kind # "" THEN <<"COMMIT_EDITMSG", kind>>
  ELSE <<"COMMIT_EDITMSG">>

\* process.argv[3] of the hook when the shell runs the script with args:
\* the script hands over "$2" only if it names it
HookArgv3(script, args) ==
  IF Includes(script, " \"$2\"")
  THEN Str(IF Len(args) >= 2 THEN args[2] ELSE "")
  ELSE Undefined

CommitInit ==
  /\ reviewIgnore \in IgnoreSetups
  /\ pc = "installed"
  /\ command = "setup"
  /\ repo = setupHook(NoRepo)
  /\ commitKind = ""
  /\ commitSource = Undefined
  /\ env = KeyedSetup.env
  /\ dotEnv = [root |-> Undefined, cwd |-> Undefined]
  /\ aiConfig = NoAIConfig
  /\ CONFIG = NoConfig
  /\ ignorePatterns = <<>>
  /\ diff = ""
  /\ truncatedDiff = ""
  /\ buildResult = "none"
  /\ warned = FALSE
  /\ attempt = 0
  /\ lastError = NoError
  /\ outcomes = <<>>
  /\ waits = <<>>
  /\ retryEnd = ""
  /\ response = NoResponse
  /\ error = NoError
  /\ caught = FALSE
  /\ msgFile = ""
  /\ writes = 0
  /\ exitCode = 0
  /\ steps = <<>>

\* git commit: Git runs .husky/commit-msg, the script runs the hook
GitCommit ==
  /\ pc = "installed"
  /\ repo.commitMsg.defined
  /\ \E kind \in CommitKinds :
       /\ commitKind' = kind
       /\ commitSource' = HookArgv3(repo.commitMsg.s, GitHookArgs("commit-msg", kind))
       /\ msgFile' = UserMessage(kind)
  /\ pc' = "start"
  /\ exitCode' = -1
  /\ UNCHANGED <<reviewIgnore, command, repo, env, dotEnv, aiConfig, CONFIG, ignorePatterns, diff,
                 truncatedDiff, buildResult, warned, attempt, lastError, outcomes, waits,
                 retryEnd, response, error, caught, writes, steps>>

CommitNext == GitCommit \/ Next

CommitSpec == CommitInit /\ [][CommitNext]_vars

\* the ways to commit for which the documentation promises an automatic skip
TaggedKinds == {"message", "merge", "squash", "commit"}

\* C21: with the installed hook, a commit made with -m, a merge, a squash or
\* an amend reaches the gate with its source tag and is skipped: the run
\* ends with exit code 0, without reading the diff, without a remote call
\* and with the user's message left as it was
C21_InstalledHookSkipsTaggedCommits ==
  (commitKind \in TaggedKinds /\ pc = "exited")
    => /\ commitSource = Str(commitKind)
       /\ exitCode = 0
       /\ steps = <<"loadEnv", "gate">>
       /\ outcomes = <<>>
       /\ msgFile = UserMessage(commitKind)

\* a .gitignore text with a line that ignores the file name
GitignoreIgnores(file, name) ==
  /\ file.defined
  /\ \E i \in 1..Len(Split(file.s, "\n")) : TrimEnd(Split(file.s, "\n")[i]) = name

\* C22: after ai-review init or ai-review setup has completed, .gitignore
\* has an entry that ignores .env, whatever it held before
C22_SetupIgnoresDotEnv ==
  pc = "installed" => GitignoreIgnores(repo.gitignore, ".env")

\* the paths of the header lines of a diff text
HeaderPaths(d) ==
  LET lines == Split(d, "\n") IN
  { DiffMatch(lines[i]).s : i \in { j \in DOMAIN lines : DiffMatch(lines[j]).defined } }

(***************************************************************************)
(* Properties                                                              *)
(***************************************************************************)

C2_NonZeroIffBuildOrNegative ==
  pc = "exited" =>
    ((exitCode # 0) <=>
       (buildResult = "failed"
          \/ (response.kind = "object" /\ response.is_passed = JV("boolean", "false"))))

\* C3: the commit-message file is written only in a run whose verdict has
\* is_passed true; in every other run its content stays what it was.
C3_WrittenOnlyOnPass ==
  (writes > 0 \/ msgFile # OrigMsg) =>
    (response.kind = "object" /\ response.is_passed = JV("boolean", "true"))

\* C4: a run in which an exception reached the catch block of runAIReview
\* ends with exit code 0 and the message file untouched.
C4_ExceptionsFailOpen ==
  (caught /\ pc = "exited") => (exitCode = 0 /\ writes = 0 /\ msgFile = OrigMsg)

\* C5: a response that is not a JSON object with a boolean is_passed, a
\* string reason and a string message ends the run with exit code 0 and the
\* message file untouched.
C5_MalformedResponseFailsOpen ==
  LET c == response
      wellFormed == /\ c.kind = "object"
                    /\ c.is_passed.t = "boolean"
                    /\ c.reason.t = "string"
                    /\ c.message.t = "string"
  IN (pc = "exited" /\ c.kind # "none" /\ ~wellFormed) =>
       (exitCode = 0 /\ writes = 0 /\ msgFile = OrigMsg)

\* C6: with an empty or absent resolved credential the run stops at the
\* credential check: no remote call, no diff read, message file untouched,
\* exit code 0; the check comes after the gate and before the diff is read.
C6_NoCredentialNoCall ==
  LET noKey == ~aiConfig.apiKey.defined \/ aiConfig.apiKey.s = "" IN
  /\ (pc # "start" /\ noKey) =>
       /\ pc \in {"gate", "apiKey", "exited"}
       /\ \A i \in DOMAIN steps : steps[i] \in {"loadEnv", "gate", "apiKey"}
       /\ outcomes = <<>>
       /\ diff = ""
       /\ writes = 0
       /\ msgFile = OrigMsg
       /\ (pc = "exited" => exitCode = 0)
  /\ \A i \in DOMAIN steps :
       /\ steps[i] = "apiKey" => \E j \in 1..(i - 1) : steps[j] = "gate"
       /\ steps[i] \in {"loadIgnore", "gitDiff", "remote"} =>
            \E j \in 1..(i - 1) : steps[j] = "apiKey"

C6_Witness ==
  /\ pc = "exited"
  /\ aiConfig.apiKey = Str("")
  /\ steps = <<"loadEnv", "gate", "apiKey">>
  /\ exitCode = 0

\* C7: an invocation that fails with status 401 or 403 is the last one of the
\* call: callWithRetry raises that very error at once, with no sleep after
\* the failure, whatever attempt it was and whatever budget is left.
C7_AuthErrorNotRetried ==
  \A i \in DOMAIN outcomes :
    (~outcomes[i].ok /\ outcomes[i].err.status \in {401, 403}) =>
      /\ i = Len(outcomes)
      /\ retryEnd = "raised"
      /\ pc \in {"catch", "exited"}
      /\ error = outcomes[i].err
      /\ \A w \in DOMAIN waits : waits[w].attempt < outcomes[i].attempt

C7_Witness ==
  /\ pc = "catch"
  /\ CONFIG.maxRetries = 3
  /\ Len(outcomes) = 1
  /\ outcomes[1].err.status = 403
  /\ waits = <<>>

\* C8: callWithRetry invokes the operation for attempts 1, 2, ... and never
\* for an attempt beyond maxRetries; an invocation starts only from the loop
\* head, after the previous one failed with a retriable error and its sleep
\* is over; the call ends as done or as raised, never both, and stays so.
C8_BoundedSequentialRetry ==
  /\ [](/\ \A i \in DOMAIN outcomes : outcomes[i].attempt = i /\ i <= CONFIG.maxRetries
        /\ \A i \in DOMAIN outcomes :
             i < Len(outcomes) =>
               (~outcomes[i].ok /\ outcomes[i].err.status \notin {401, 403})
        /\ retryEnd \in {"", "done", "raised"}
        /\ (pc \in {"call", "backoff"} => retryEnd = "" /\ ENABLED Next)
        /\ (pc = "backoff" =>
              /\ waits # <<>>
              /\ waits[Len(waits)].attempt = attempt
              /\ Len(outcomes) = attempt)
        /\ (retryEnd = "done" <=> (outcomes # <<>> /\ outcomes[Len(outcomes)].ok))
        /\ (pc = "result" => retryEnd = "done")
        /\ (retryEnd = "raised" => pc \in {"catch", "exited"} /\ error = lastError))
  /\ [][/\ (Len(outcomes') > Len(outcomes) =>
              pc = "call" /\ retryEnd = "" /\ Len(outcomes') = Len(outcomes) + 1)
        /\ (retryEnd # "" => retryEnd' = retryEnd /\ outcomes' = outcomes)]_vars

C8_Witness ==
  /\ retryEnd = "raised"
  /\ CONFIG.maxRetries = 3
  /\ Len(outcomes) = 3
  /\ outcomes[3].err.status = 429

\* C9 as stated: when the call succeeds on attempt k, k invocations were made
\* and every wait is longer than the one before it.
C9_WaitsStrictlyIncrease ==
  retryEnd = "done" =>
    /\ Len(outcomes) = attempt
    /\ outcomes[attempt].ok
    /\ \A i, j \in DOMAIN waits : i < j => waits[i].ms < waits[j].ms

\* C9 amended: when the call succeeds on attempt k <= maxRetries, exactly k
\* invocations were made, the first k-1 failed and each was followed by one
\* wait; with a positive retry delay a wait is longer than the one before it
\* unless the earlier failure was rate-limited and the later one transient.
C9_WaitsIncreaseExceptAfterRateLimit ==
  retryEnd = "done" =>
    LET k == Len(outcomes) IN
    /\ k = attempt
    /\ k <= CONFIG.maxRetries
    /\ outcomes[k].ok
    /\ \A i \in 1..(k - 1) : ~outcomes[i].ok
    /\ Len(waits) = k - 1
    /\ \A i \in 1..(k - 1) : waits[i].attempt = i
    /\ CONFIG.retryDelay > 0 =>
         \A i \in 1..(k - 2) :
           \/ waits[i].status = 429 /\ waits[i + 1].status # 429
           \/ waits[i].ms < waits[i + 1].ms

C9_Witness ==
  /\ retryEnd = "done"
  /\ CONFIG.maxRetries = 3
  /\ Len(outcomes) = 3
  /\ waits[1].status = 500
  /\ waits[2].status = 500
  /\ waits[1].ms < waits[2].ms

\* C10: every wait of callWithRetry follows a failed attempt n and lasts
\* retryDelay * n * 2 when that failure had status 429 and retryDelay * n
\* otherwise; a rate-limited failure is always followed by its wait, a
\* transient one whenever another attempt is left.
C10_BackoffFormula ==
  /\ \A i \in DOMAIN waits :
       LET n == waits[i].attempt IN
       /\ n \in DOMAIN outcomes
       /\ ~outcomes[n].ok
       /\ outcomes[n].err.status = waits[i].status
       /\ waits[i].ms = IF waits[i].status = 429
                        THEN 2 * (CONFIG.retryDelay * n)
                        ELSE CONFIG.retryDelay * n
  /\ \A n \in DOMAIN outcomes :
       (/\ ~outcomes[n].ok
        /\ outcomes[n].err.status \notin {401, 403}
        /\ (outcomes[n].err.status = 429 \/ n < CONFIG.maxRetries)) =>
         \E i \in DOMAIN waits : waits[i].attempt = n

C10_Witness ==
  /\ Len(waits) = 2
  /\ waits[1].status = 429
  /\ waits[1].ms = 2000
  /\ waits[2].status = 500
  /\ waits[2].ms = 2000

(***************************************************************************)
(* The written message                                                     *)
(***************************************************************************)
\* the types the prompt allows in `<type>(<scope>): <description>`
ConventionalTypes ==
  {"feat", "fix", "docs", "style", "refactor", "perf", "test", "chore", "ci"}

\* the first line of text reads type: description or type(scope): description
IsConventional(text) ==
  LET first == Split(text, "\n")[1]
      k     == IndexOf(first, ": ", 1)
      head  == SubSeq(first, 1, k - 1)
      p     == IndexOf(head, "(", 1)
  IN /\ k > 1
     /\ Len(first) > k + 1
     /\ IF p = 0 THEN head \in ConventionalTypes
        ELSE /\ SubSeq(head, 1, p - 1) \in ConventionalTypes
             /\ EndsWith(head, ")")
             /\ Len(head) > p + 1

\* C11: whenever the hook has written the commit-message file, the content
\* is non-empty and its first line matches type(scope): description.
C11_WrittenMessageIsConventional ==
  writes > 0 => (msgFile # "" /\ IsConventional(msgFile))

\* C12: a run whose verdict is is_passed true with a string message ends with
\* exit code 0 and one write; with a missing, empty or blank reason the file
\* holds the message exactly, otherwise it holds the message, a blank line,
\* the heading and one line per line of reason, each starting with #.
C12_PassWritesMessageAndAdvice ==
  LET c == response IN
  (/\ pc = "exited"
   /\ c.kind = "object"
   /\ c.is_passed = JTrue
   /\ c.message.t = "string"
   /\ c.reason.t \in {"string", "undefined"}) =>
    /\ writes = 1
    /\ exitCode = 0
    /\ IF c.reason.t = "undefined" \/ Trim(c.reason.s) = ""
       THEN msgFile = c.message.s
       ELSE /\ StartsWith(msgFile, c.message.s \o "\n\n")
            /\ LET block == Split(SubSeq(msgFile, Len(c.message.s) + 3, Len(msgFile)), "\n")
                   lines == Split(c.reason.s, "\n")
               IN /\ Len(block) = 1 + Len(lines)
                  /\ \A i \in DOMAIN block : StartsWith(block[i], "#")
                  /\ \A i \in DOMAIN lines : EndsWith(block[i + 1], lines[i])

C12_Witness ==
  /\ pc = "exited"
  /\ response.is_passed = JTrue
  /\ response.reason = JV("string", "r1\nr2")
  /\ msgFile = "feat(auth): add token check\n\n# --- AI Review 建议 ---\n# r1\n# r2"
  /\ exitCode = 0

(***************************************************************************)
(* Ignore rules and the filter                                             *)
(***************************************************************************)
\* path has dir as one of its directory components
UnderDirectory(path, dir) ==
  StartsWith(path, dir \o "/") \/ IndexOf(path, "/" \o dir \o "/", 1) > 0

\* the filter step of the run has been taken
Filtered == \E i \in DOMAIN steps : steps[i] = "filter"

\* C13: with the rule set [dist/] no file under a dist directory is left in
\* the diff after the filter step, and a run whose files were all dropped
\* exits with code 0 without calling the remote service.
C13_DirectoryRuleDropsDirectory ==
  (ignorePatterns = <<"dist/">> /\ Filtered /\ pc # "catch") =>
    /\ \A f \in HeaderPaths(diff) : ~UnderDirectory(f, "dist")
    /\ HeaderPaths(diff) = {} =>
         /\ pc = "exited"
         /\ exitCode = 0
         /\ outcomes = <<>>
         /\ \A i \in DOMAIN steps : steps[i] # "remote"

\* rule i of R matches the path f
RuleMatches(R, i, f) ==
  LET c == Compile(patternToRegex(R[i]).regex) IN c.st = "ok" /\ RegexTest(c.alts, f)

\* the verdict of the last rule of R that matches f; not ignored when none does
LastMatchIgnores(f, R) ==
  LET hits == { i \in DOMAIN R : RuleMatches(R, i, f) } IN
  /\ hits # {}
  /\ ~patternToRegex(R[CHOOSE i \in hits : \A j \in hits : j <= i]).negated

\* C14: the filter step keeps the segment of a file exactly when the last
\* rule matching its path is a negation or no rule matches it; with the rules
\* [*.md, !README.md] README.md is kept and CHANGELOG.md dropped, with the
\* rules in the other order both are dropped.
C14_LastMatchingRuleDecides ==
  [][(pc = "filter" /\ pc' # "catch") =>
       /\ \A f \in HeaderPaths(diff) :
            (f \in HeaderPaths(diff')) <=> ~LastMatchIgnores(f, ignorePatterns)
       /\ ignorePatterns = <<"*.md", "!README.md">> =>
            /\ "README.md" \in HeaderPaths(diff) => "README.md" \in HeaderPaths(diff')
            /\ "CHANGELOG.md" \notin HeaderPaths(diff')
       /\ ignorePatterns = <<"!README.md", "*.md">> =>
            /\ "README.md" \notin HeaderPaths(diff')
            /\ "CHANGELOG.md" \notin HeaderPaths(diff')
       /\ ignorePatterns = <<"*.snap">> =>
            \A f \in HeaderPaths(diff) : ~EndsWith(f, ".snap") => f \in HeaderPaths(diff')]_vars

C14_Witness ==
  /\ pc = "build"
  /\ ignorePatterns = <<"*.md", "!README.md">>
  /\ diff = Segment("src/b.js") \o Segment("README.md")

\* a pattern without a leading ! and without the wildcards * and ?
IsLiteralPattern(p) ==
  /\ ~StartsWith(p, "!")
  /\ IndexOf(p, "*", 1) = 0
  /\ IndexOf(p, "?", 1) = 0

\* C15: with one literal rule p, a file whose path equals p is dropped by
\* the filter step.
C15_LiteralPatternMatchesItself ==
  (/\ Filtered
   /\ pc # "catch"
   /\ Len(ignorePatterns) = 1
   /\ IsLiteralPattern(ignorePatterns[1])) =>
    ignorePatterns[1] \notin HeaderPaths(diff)

\* C16: filtering the filtered diff once more with the same rules changes
\* nothing.
C16_FilterIdempotent ==
  (Filtered /\ pc # "catch") =>
    filterDiff(diff, ignorePatterns) = [st |-> "ok", diff |-> diff]

C16_Witness ==
  /\ pc = "build"
  /\ ignorePatterns = <<"dist">>
  /\ diff = Segment("src/b.js")

\* C17: the filter step leaves the diff as it is when the rule set is empty
\* and when the rules ignore none of the files the diff names.
C17_FilterIdentity ==
  [][(/\ pc = "filter"
      /\ pc' # "catch"
      /\ \/ ignorePatterns = <<>>
         \/ \A f \in HeaderPaths(diff) : ~LastMatchIgnores(f, ignorePatterns)) =>
       diff' = diff]_vars

C17_Witness ==
  /\ pc = "build"
  /\ ignorePatterns = <<>>
  /\ diff = Segment("README.md") \o Segment("CHANGELOG.md")

(***************************************************************************)
(* Provider resolution                                                     *)
(***************************************************************************)
\* the provider name the settings select, in lower case
SelectedName ==
  IF Truthy(env["AI_PROVIDER"]) THEN ToLowerCase(env["AI_PROVIDER"].s) ELSE "openai"

\* C18: an explicit OPENAI_BASE_URL or OPENAI_MODEL is the resolved value
\* whatever the provider; without it the selected provider's preset value is
\* the resolved one (deepseek: its URL and deepseek-chat).
C18_OverrideWinsElsePreset ==
  pc # "start" =>
    /\ Truthy(env["OPENAI_BASE_URL"]) => aiConfig.baseURL = env["OPENAI_BASE_URL"]
    /\ Truthy(env["OPENAI_MODEL"]) => aiConfig.model = env["OPENAI_MODEL"]
    /\ (~Truthy(env["OPENAI_BASE_URL"]) /\ SelectedName = "deepseek") =>
         aiConfig.baseURL = Str("https://api.deepseek.com")
    /\ (~Truthy(env["OPENAI_MODEL"]) /\ SelectedName = "deepseek") =>
         aiConfig.model = Str("deepseek-chat")
    /\ (~Truthy(env["OPENAI_BASE_URL"]) /\ SelectedName = "openai") =>
         aiConfig.baseURL = Str("https://api.openai.com/v1")
    /\ (~Truthy(env["OPENAI_MODEL"]) /\ SelectedName = "openai") =>
         aiConfig.model = Str("gpt-4o-mini")

C18_Witness ==
  /\ pc = "gate"
  /\ env["AI_PROVIDER"] = Str("deepseek")
  /\ env["OPENAI_MODEL"] = Str("my-model")
  /\ ~env["OPENAI_BASE_URL"].defined
  /\ aiConfig.baseURL = Str("https://api.deepseek.com")
  /\ aiConfig.model = Str("my-model")

\* C19: the provider name is read without regard to case, an unset name is
\* openai, and a name that is neither openai nor deepseek resolves base URL,
\* model and credential as openai does.
C19_UnknownProviderFallsBack ==
  pc # "start" =>
    /\ aiConfig.provider = SelectedName
    /\ (SelectedName = "deepseek" /\ ~Truthy(env["OPENAI_BASE_URL"])) =>
         aiConfig.baseURL = Str("https://api.deepseek.com")
    /\ SelectedName \notin {"deepseek"} =>
         /\ aiConfig.baseURL =
              OrElse(env["OPENAI_BASE_URL"], Str("https://api.openai.com/v1"))
         /\ aiConfig.model = OrElse(env["OPENAI_MODEL"], Str("gpt-4o-mini"))
         /\ aiConfig.apiKey = env["OPENAI_API_KEY"]

\* C20: the resolved credential is the value under the selected provider's
\* own key when that value is not empty, and the value under OPENAI_API_KEY
\* (possibly absent) otherwise.
C20_ProviderKeyThenGenericKey ==
  pc # "start" =>
    LET own == IF SelectedName = "deepseek" THEN env["DEEPSEEK_API_KEY"]
               ELSE env["OPENAI_API_KEY"]
    IN aiConfig.apiKey = (IF Truthy(own) THEN own ELSE env["OPENAI_API_KEY"])

C20_Witness ==
  /\ pc = "gate"
  /\ env["AI_PROVIDER"] = Str("DeepSeek")
  /\ env["OPENAI_API_KEY"] = Str("sk-generic")
  /\ env["DEEPSEEK_API_KEY"] = Str("sk-deepseek")
  /\ aiConfig.apiKey = Str("sk-deepseek")

\* the steps of a run so far include s
Did(s) == \E i \in DOMAIN steps : steps[i] = s

\* C23: when the build check is enabled and the build command exits
\* non-zero, the run exits with a non-zero code, calls no remote service and
\* leaves the message file alone; when AI_REVIEW_SKIP_BUILD is "true" the
\* build command is never run and no run is ended by it.
C23_BuildFailureBlocksSkipNeverRuns ==
  /\ buildResult = "failed" =>
       /\ pc = "exited"
       /\ exitCode # 0
       /\ ~Did("remote")
       /\ outcomes = <<>>
       /\ writes = 0
       /\ msgFile = OrigMsg
  /\ (pc # "start" /\ env["AI_REVIEW_SKIP_BUILD"] = Str("true")) =>
       /\ ~Did("build")
       /\ buildResult \in {"none", "skipped"}
  /\ Did("build") => ~CONFIG.skipBuild

C23_Witness ==
  /\ pc = "exited"
  /\ CONFIG.skipBuild = FALSE
  /\ buildResult = "failed"
  /\ steps[Len(steps)] = "build"
  /\ exitCode = 1

\* the place of a step in the order of a run
StepRank(s) ==
  CASE s = "loadEnv"    -> 0
    [] s = "gate"       -> 1
    [] s = "apiKey"     -> 2
    [] s = "loadIgnore" -> 3
    [] s = "gitDiff"    -> 4
    [] s = "filter"     -> 5
    [] s = "build"      -> 6
    [] s = "remote"     -> 8
    [] OTHER            -> 9

\* C24: the steps of a run occur in the order gate, credential check,
\* ignore-rule load, diff read, filter, build check, truncation, remote call,
\* verdict handling, each at most once except the remote call; a run that
\* has ended takes no further step; the build command runs only with a
\* non-empty filtered diff, and the remote service is called only after the
\* gate let the run through, the credential was found, the filtered diff was
\* not empty, the build check passed or was skipped, and the diff was cut.
C24_StepsInFixedOrder ==
  /\ \A i, j \in DOMAIN steps :
       i < j => /\ StepRank(steps[i]) <= StepRank(steps[j])
                /\ StepRank(steps[i]) = StepRank(steps[j]) => steps[i] = "remote"
  /\ \A i \in DOMAIN steps :
       (StepRank(steps[i]) \in 2..9 /\ steps[i] # "unhandledRejection") =>
          (i > 1 /\ StepRank(steps[i - 1]) >= (IF StepRank(steps[i]) <= 6 THEN StepRank(steps[i]) - 1 ELSE 2))
  /\ Did("build") =>
       /\ Did("filter")
       /\ \E k \in 1..Len(diff) : Ch(diff, k) \notin WhiteSpace
  /\ (pc \in {"build", "truncate"} \/ Did("build")) => truncatedDiff = "" \/ buildResult # "none"
  /\ buildResult \in {"none", "failed"} => truncatedDiff = "" /\ attempt = 0
  /\ Did("remote") =>
       /\ ~(commitSource.defined
              /\ commitSource.s \in {"message", "merge", "squash", "commit"})
       /\ Did("gate") /\ Did("apiKey") /\ Did("loadIgnore") /\ Did("gitDiff") /\ Did("filter")
       /\ aiConfig.apiKey.defined /\ aiConfig.apiKey.s # ""
       /\ \E k \in 1..Len(diff) : Ch(diff, k) \notin WhiteSpace
       /\ buildResult \in {"passed", "skipped"}
       /\ (buildResult = "passed") = Did("build")
       /\ truncatedDiff = Slice(diff, 0, CONFIG.maxDiffSize)
  /\ Did("write") => Did("remote") /\ steps[Len(steps)] = "write"

C24_Witness ==
  /\ pc = "exited"
  /\ steps = <<"loadEnv", "gate", "apiKey", "loadIgnore", "gitDiff", "filter", "build",
               "remote", "remote", "write">>

\* C25: the gate is evaluated before any input or output other than reading
\* the command-line arguments: no .env file or package.json is probed or
\* read before it, and a run the gate skips consists of the gate alone.
C25_GateBeforeAnyIO ==
  /\ \A i \in DOMAIN steps :
       steps[i] = "loadEnv" => \E j \in 1..(i - 1) : steps[j] = "gate"
  /\ (pc = "exited" /\ commitSource.defined
        /\ commitSource.s \in {"message", "merge", "squash", "commit"}) =>
       steps = <<"gate">>

\* the first n characters of d, all of d when it is shorter
Prefix(d, n) == IF n <= 0 THEN "" ELSE SubSeq(d, 1, Min(Len(d), n))

\* C26: for every filtered diff and every configured AI_REVIEW_MAX_DIFF_SIZE
\* the text sent to the remote service is the prefix of the diff of length
\* min(|d|, maxDiffSize), the advisory is printed exactly when
\* |d| > maxDiffSize, and the run goes on to the remote call.
C26_TruncationIsPrefix ==
  attempt >= 1 =>
    /\ truncatedDiff = Prefix(diff, CONFIG.maxDiffSize)
    /\ Len(truncatedDiff) = Min(Len(diff), CONFIG.maxDiffSize)
    /\ warned = (Len(diff) > CONFIG.maxDiffSize)
    /\ Did("remote") \/ pc = "call"

\* the header line git prints for a file moved from old to new
HeaderLine(old, new) == "diff --git a/" \o old \o " b/" \o new

\* the line is the header of a segment
IsHeader(line) == \E o, n \in DiffPaths : line = HeaderLine(o, n)

\* the new-side path of a header line
NewSide(line) == CHOOSE n \in DiffPaths : \E o \in DiffPaths : line = HeaderLine(o, n)

\* line i lies in a segment whose new-side path the rules R ignore
InIgnoredSegment(lines, R, i) ==
  LET hs == { h \in 1..i : IsHeader(lines[h]) } IN
  /\ hs # {}
  /\ LastMatchIgnores(NewSide(lines[CHOOSE h \in hs : \A g \in hs : g <= h]), R)

\* the lines from i on that lie in no ignored segment, in their order
RECURSIVE KeptFrom(_, _, _)
KeptFrom(lines, R, i) ==
  IF i > Len(lines) THEN <<>>
  ELSE (IF InIgnoredSegment(lines, R, i) THEN <<>> ELSE <<lines[i]>>)
         \o KeptFrom(lines, R, i + 1)

\* C27: the output of filterDiff is the input lines in their order without the
\* lines of the ignored segments: a header line starts a segment, the
\* decision is taken on its new-side path and holds up to the next header,
\* lines before the first header are kept, and a kept segment after an
\* ignored one is kept whole.
C27_FilterDropsIgnoredSegments ==
  [][(pc = "filter" /\ pc' # "catch") =>
       diff' = Join(KeptFrom(Split(diff, "\n"), ignorePatterns, 1), "\n")]_vars

C27_Witness ==
  /\ pc = "build"
  /\ ignorePatterns = <<"dist/", "*.md">>
  /\ diff = "index 000\n" \o Segment("src/b.js")

\* C28: a rule that starts with / is anchored to the start of the path: with
\* the rule /foo the filter step drops foo and foo/bar and keeps a/foo; a
\* rule without a leading / matches from the start of the path or right
\* after a /, never inside a path segment: with the rule dist it drops
\* dist/a.js and src/dist/c.js and keeps mydist/a.js.
C28_LeadingSlashAnchorsToRoot ==
  [][(pc = "filter" /\ pc' # "catch") =>
       /\ ignorePatterns = <<"/foo">> =>
            /\ "foo" \notin HeaderPaths(diff')
            /\ "foo/bar" \notin HeaderPaths(diff')
            /\ "a/foo" \in HeaderPaths(diff) => "a/foo" \in HeaderPaths(diff')
       /\ ignorePatterns = <<"dist">> =>
            /\ "dist/a.js" \notin HeaderPaths(diff')
            /\ "src/dist/c.js" \notin HeaderPaths(diff')
            /\ "mydist/a.js" \in HeaderPaths(diff) => "mydist/a.js" \in HeaderPaths(diff')]_vars

\* the text s is what the wildcard pattern p stands for: * is a run without
\* /, ? one character other than /, ** any run, anything else itself
RECURSIVE Glob(_, _)
Glob(p, s) ==
  IF p = "" THEN s = ""
  ELSE IF StartsWith(p, "**")
       THEN \E k \in 0..Len(s) : Glob(SubSeq(p, 3, Len(p)), SubSeq(s, k + 1, Len(s)))
  ELSE IF Ch(p, 1) = "*"
       THEN \E k \in 0..Len(s) :
              /\ IndexOf(SubSeq(s, 1, k), "/", 1) = 0
              /\ Glob(SubSeq(p, 2, Len(p)), SubSeq(s, k + 1, Len(s)))
  ELSE /\ s # ""
       /\ IF Ch(p, 1) = "?" THEN Ch(s, 1) # "/" ELSE Ch(s, 1) = Ch(p, 1)
       /\ Glob(SubSeq(p, 2, Len(p)), SubSeq(s, 2, Len(s)))

\* the rule p, which has no leading / or !, matches the path f: the wildcard
\* pattern stands for a part of f that starts and ends at a segment boundary
GlobRule(p, f) ==
  LET core == IF EndsWith(p, "/") THEN SubSeq(p, 1, Len(p) - 1) ELSE p IN
  \E i \in 1..(Len(f) + 1), j \in 0..Len(f) :
    /\ i <= j + 1
    /\ i = 1 \/ Ch(f, i - 1) = "/"
    /\ j = Len(f) \/ Ch(f, j + 1) = "/"
    /\ Glob(core, SubSeq(f, i, j))

\* rules made of wildcards, regex metacharacters and plain characters
WildcardRules ==
  {<<"*.snap">>, <<"tmp*/">>, <<"a?c.js">>, <<"a*.js">>, <<"docs/**/x.md">>, <<"a.b">>,
   <<"a+b">>, <<"(x)">>}

\* C29: in a compiled rule * stands for any run of characters without /,
\* possibly empty, ? for exactly one character other than /, ** for any run,
\* and every other character, regex metacharacters included, for itself with
\* its case: the filter step drops exactly the files such a rule stands for.
C29_WildcardSemantics ==
  [][(pc = "filter" /\ pc' # "catch" /\ ignorePatterns \in WildcardRules) =>
       \A f \in HeaderPaths(diff) :
         (f \notin HeaderPaths(diff')) <=> GlobRule(ignorePatterns[1], f)]_vars

\* the sleeps recorded for the failure of attempt n
WaitsOf(n) == { w \in DOMAIN waits : waits[w].attempt = n }

\* C30: every failure of the operation is handled as exactly one of fatal
\* (status 401 or 403: raised at once, no sleep), rate-limited (status 429:
\* one sleep of retryDelay * attempt * 2, whatever budget is left) and
\* transient (any other error, a request timeout and an error without a
\* status included: one sleep of retryDelay * attempt when an attempt is
\* left, none after the last attempt); a timeout is never raised at once.
C30_ErrorClasses ==
  \A i \in DOMAIN outcomes :
    ~outcomes[i].ok =>
      LET e == outcomes[i].err
          n == outcomes[i].attempt
      IN /\ Cardinality(WaitsOf(n)) <= 1
         /\ e.status \in {401, 403} =>
              /\ WaitsOf(n) = {}
              /\ i = Len(outcomes)
              /\ retryEnd = "raised" /\ error = e
         /\ e.status = 429 =>
              \E w \in WaitsOf(n) :
                waits[w].status = 429 /\ waits[w].ms = CONFIG.retryDelay * n * 2
         /\ e.status \notin {401, 403, 429} =>
              /\ n < CONFIG.maxRetries =>
                   /\ \E w \in WaitsOf(n) :
                        waits[w].status = e.status /\ waits[w].ms = CONFIG.retryDelay * n
                   /\ pc \in {"catch", "exited"} => i < Len(outcomes)
              /\ n >= CONFIG.maxRetries => WaitsOf(n) = {}
              /\ (i = Len(outcomes) /\ retryEnd = "raised") => n = CONFIG.maxRetries

C30_Witness ==
  /\ pc = "result"
  /\ Len(outcomes) = 2
  /\ outcomes[1].err = Err("APIConnectionTimeoutError", 0, "")
  /\ outcomes[2].ok
  /\ waits = <<[attempt |-> 1, status |-> 0, ms |-> DefaultRetryDelay]>>

\* C31: when callWithRetry has used up its attempts, each failing with a
\* non-fatal error, it raises the error of the last attempt, and the message
\* the catch block prints is chosen from that error.
C31_ExhaustionRaisesLastError ==
  (retryEnd = "raised" /\ outcomes # <<>>) =>
    LET last == outcomes[Len(outcomes)].err IN
    /\ error = last
    /\ lastError = last
    /\ (pc = "exited" /\ caught) => steps[Len(steps)] = Advisory(last)

C31_Witness ==
  /\ pc = "exited"
  /\ CONFIG.maxRetries = 2
  /\ Len(outcomes) = 2
  /\ outcomes[1].err.status = 500
  /\ outcomes[2].err.status = 429
  /\ error.status = 429
  /\ steps[Len(steps)] = "rateLimit"

\* C32: for every configured AI_REVIEW_MAX_RETRIES a run that reaches the
\* remote call invokes the operation at least once, and what callWithRetry
\* raises is an error one of its invocations produced, never undefined.
C32_AtLeastOneInvocation ==
  /\ (attempt >= 1 /\ pc # "call") => outcomes # <<>>
  /\ retryEnd = "raised" =>
       /\ error.defined
       /\ \E i \in DOMAIN outcomes : ~outcomes[i].ok /\ outcomes[i].err = error

\* C33: sleeps occur only between attempts: no sleep follows a failure on
\* attempt maxRetries, rate-limited or transient, so a call makes at most
\* maxRetries - 1 sleeps.
C33_NoSleepAfterLastAttempt ==
  /\ \A w \in DOMAIN waits : waits[w].attempt < CONFIG.maxRetries
  /\ (CONFIG.maxRetries >= 1 /\ attempt >= 1) => Len(waits) <= CONFIG.maxRetries - 1

\* C34: a verdict is handled as a pass, the file written and the run ended
\* with code 0, only when is_passed is the boolean true; a verdict whose
\* is_passed is not a boolean never is.
C34_OnlyBooleanTruePasses ==
  /\ (pc = "exited" /\ Did("write")) =>
       /\ response.is_passed.t = "boolean"
       /\ response.is_passed = JTrue
  /\ (pc = "exited" /\ response.kind = "object" /\ response.is_passed.t # "boolean") =>
       /\ ~Did("write")
       /\ msgFile = OrigMsg
       /\ ~(exitCode = 0 /\ ~caught)

\* every external call returns or fails, and the process goes on stepping:
\* WF_vars(Next), with ENABLED <<Next>>_vars written out as pc # "exited"
\* (every position but the last has a step) and <<Next>>_vars as any change
Fairness == []<>(pc = "exited") \/ []<><<TRUE>>_vars

LiveSpec == Init /\ [][Next]_vars /\ Fairness

IsRuleLine(line) == Trim(line) # "" /\ Ch(Trim(line), 1) # "#"

\* the rules of an ignore file: its rule lines in their order, each without
\* the white space around it
RulesOfFile(text) ==
  LET lines == SelectSeq(Split(text, "\n"), IsRuleLine) IN
  [i \in DOMAIN lines |-> Trim(lines[i])]

\* C36: the rules are those of the first location that has an ignore file,
\* project root before current directory, and of that file only, even when
\* it holds no rule; blank lines and comment lines give no rule, every other
\* line gives one rule, in the order of the lines; without a file the rule
\* set is empty.
C36_FirstIgnoreFileOnly ==
  (pc = "readDiff" \/ Did("gitDiff")) =>
    ignorePatterns =
      (IF reviewIgnore.root.defined THEN RulesOfFile(reviewIgnore.root.s)
       ELSE IF reviewIgnore.cwd.defined THEN RulesOfFile(reviewIgnore.cwd.s)
       ELSE <<>>)

C36_Witness ==
  /\ pc = "readDiff"
  /\ reviewIgnore = [root |-> Str("# nothing\n"), cwd |-> Str("*.md\n")]
  /\ ignorePatterns = <<>>

\* C37: a rule of the form **/X matches X at every depth, directly at the
\* root of the repository too: with the rule **/*.snap the filter step drops
\* a.snap, x/a.snap and x/y/a.snap.
C37_DoubleStarMatchesEveryDepth ==
  [][(pc = "filter" /\ pc' # "catch" /\ ignorePatterns = <<"**/*.snap">>) =>
       /\ "a.snap" \notin HeaderPaths(diff')
       /\ "x/a.snap" \notin HeaderPaths(diff')
       /\ "x/y/a.snap" \notin HeaderPaths(diff')]_vars

\* a path as git prints it: no / at either end and no empty segment
WellFormedPath(f) ==
  /\ f # ""
  /\ ~StartsWith(f, "/")
  /\ ~EndsWith(f, "/")
  /\ IndexOf(f, "//", 1) = 0

\* the rules of R other than the bare negation mark
RECURSIVE WithoutBareNegation(_)
WithoutBareNegation(R) ==
  IF Len(R) = 0 THEN <<>>
  ELSE (IF R[1] = "!" THEN <<>> ELSE <<R[1]>>) \o WithoutBareNegation(Tail(R))

====
